---- MODULE Spec2Model ----
(***************************************************************************)
(* Verification model of src/src/bnn/networks/sparse.py:                   *)
(*   - the training loop `train` (KL temperature ramp, best-loss tracking, *)
(*     checkpointing, early stopping, checkpoint reload);                  *)
(*   - the sampling / conjugate-update protocol of RffHs and RffBeta;      *)
(*   - the MAP optimisation of RffGradPenHyper_v2.                         *)
(*                                                                         *)
(* Numbers.  Losses are small integers (exactly representable as float32). *)
(* Fractional arguments are pairs <<p, q>> standing for p/q with q a power *)
(* of two, so every product and comparison the code performs on them in    *)
(* floating point is exact and cross-multiplication models it.             *)
(* float('inf') is the sentinel Inf; the operators that meet it spell out  *)
(* the IEEE result (inf/inf = nan, x/0 = +-inf, every comparison with nan  *)
(* is false).                                                              *)
(***************************************************************************)
EXTENDS Integers, Sequences, FiniteSets, TLC

\* ------------------------------------------------------------------ bounds
MaxEpochs == 7
MaxRepOpt == 2
\* draws from the variational distribution in one run of the layer protocol
MaxSamples == 4
\* epochs of the runs that follow the model through every call of train
MaxProtocolEpochs == 3
\* lengthscales 1..MaxLengthscale, input dimensions 1..MaxDim
MaxLengthscale == 2
MaxDim == 2
\* distance from a stationary point, in the MAP optimisation
MaxGrad == 2
\* how far, in steps of RawStep, the MAP optimisation moves lengthscale_map
MaxDrift == 2

\* -------------------------------------------------------- program constants
Inf == 1000000
\* loss_best = 1e9 at the start of train_score
ScoreBest == 1000000000
RampDiv == 10
LookbackDen == 4
MapIters == 500

\* lengthscales are held in thousandths: Unit is 1.0
Unit == 1000
\* values of self.lengthscale after __init__
Lengthscales == {k * Unit : k \in 1..MaxLengthscale}
\* the largest move of one SGD pass: learning_rate 0.001 times clipvalue 100
RawStep == 100
\* softplus(x) = log(1 + exp(x)) at x = 0.0, 0.1, ..., 4.0, in thousandths
SoftplusTable ==
    <<693, 744, 798, 854, 913, 974, 1037, 1103, 1171, 1241,
      1313, 1387, 1463, 1541, 1620, 1701, 1784, 1868, 1953, 2039,
      2127, 2216, 2305, 2396, 2487, 2579, 2672, 2765, 2859, 2954,
      3049, 3144, 3240, 3336, 3433, 3530, 3627, 3724, 3822, 3920, 4018>>

\* values a recorded loss can take
Losses == {-1, 0, 1}
\* values of frac_start_save and frac_lookback, <<p, q>> = p/q
Fracs == {<<0, 1>>, <<1, 4>>, <<1, 2>>, <<3, 4>>, <<1, 1>>}
\* values of frac_lookback (default 0.5)
LookbackFracs == {<<1, 4>>, <<1, 2>>, <<1, 1>>}
\* print_freq: 0 stands for None
PrintFreqs == {0, 2}

\* scenario runs: 100 epochs with a plateau from epoch 50 on, and runs long
\* enough for the temperature ramp to take several epochs
PlateauEpochs == 100
PlateauStart == 50
ShortRampEpochs == 25

VARIABLES
    scenario,           \* loss family of the run: "any", "plateau" or "step"
    n_epochs, frac_start_save, frac_lookback, n_rep_opt, print_freq,
    pc,                 \* position in train
    epoch, i, temperature_kl, l,
    loss, loss_best, loss_best_saved, saved_model,
    checkpoint,         \* <<>> or <<record>>: checkpoint.tar
    model_state, optimizer_state,
    stopped_early, reloaded, ret,
    saves,              \* history: epochs at which checkpoint.tar was written
    temps,              \* history: temperature passed to model.loss, per epoch
    l_state,            \* history: the model state l was evaluated on
    ev                  \* history: what the current epoch did, in order

trainInputs == <<scenario, n_epochs, frac_start_save, frac_lookback,
                 n_rep_opt, print_freq>>

trainVars == <<trainInputs, pc, epoch, i, temperature_kl, l, loss, loss_best,
               loss_best_saved, saved_model, checkpoint, model_state,
               optimizer_state, stopped_early, reloaded, ret, saves,
               temps, l_state, ev>>

\* RffHs / RffBeta: which draw of the input layer each piece of state and
\* each forward pass rests on (0: none, the state left by init_parameters)
VARIABLES
    variant,            \* "RffHs" or "RffBeta"
    infer_noise,
    n_draws,            \* draws from the variational distribution so far
    in_stored,          \* layer_in: the stored sample
    in_aux,             \* layer_in: number of auxiliary-variable updates
    out_conj,           \* layer_out: sample behind the conjugate state
    out_w,              \* layer_out: sample behind the stored weights
    noise_updates,      \* assignments of sig2_inv_alpha and sig2_inv_beta
    last_call,          \* the method that ran last
    last_temperature,   \* the temperature it was given, as a fraction
    fwd,                \* forward passes of the last call, in order
    ops,                \* layer operations of the last call, in order
    error               \* exception raised by the last call, "" if none

modelConfig == <<variant, infer_noise>>

layerVars == <<n_draws, in_stored, in_aux, out_conj, out_w, noise_updates,
               last_call, last_temperature, fwd, ops, error>>

modelVars == <<modelConfig, layerVars>>

\* RffGradPenHyper_v2: MAP optimisation
VARIABLES
    entry,              \* method called: train_map, train_map_old or train
    map_pc,
    map_iter,           \* passes of `for epoch in range(500)` done
    map_grad,           \* distance of the iterate from a stationary point
    optim_results,      \* train_map_old: <<>> or <<[converged, failed,
                        \* position]>>, position being position[-2]
    lengthscale_map,    \* train_map: <<>> or the raw variable, thousandths
    train_infer_hyper,  \* train: its argument infer_hyper
    printed,            \* what the call printed
    map_ret             \* what the call returned to its caller

mapVars == <<entry, map_pc, map_iter, map_grad, optim_results,
             lengthscale_map, train_infer_hyper, printed, map_ret>>

\* RffBeta.compute_loss_gradients: the .grad buffers of the variational
\* parameters of layer_in, <<>> for None and <<v>> for a tensor
VARIABLES
    grad,               \* s_a_trans.grad, s_b_trans.grad
    grad_q,             \* s_a_trans_grad_q, s_b_trans_grad_q
    grad_kl,            \* s_a_trans_grad_kl, s_b_trans_grad_kl
    score               \* history: <<>> or the quantities of the last call

gradVars == <<grad, grad_q, grad_kl, score>>

\* RffGradPen, RffGradPenHyper, RffGradPenHyper_v2: the log-posterior
VARIABLES
    net,                \* the constructor arguments that shape the penalty
    lengthscale,        \* self.lengthscale, in thousandths
    built,              \* <<>> or what make_unnormalized_log_prob cached
    evaluation          \* <<>> or the last evaluation of the log-posterior

penVars == <<net, lengthscale, built, evaluation>>

vars == <<trainVars, modelVars, mapVars, gradVars, penVars>>

\* ----------------------------------------------------------------- helpers
Abs(v) == IF v < 0 THEN -v ELSE v

RECURSIVE MinOver(_, _, _)
\* torch.min(s[lo..hi]) over 1-based positions lo..hi, lo <= hi
MinOver(s, lo, hi) ==
    IF lo >= hi THEN s[lo]
    ELSE LET m == MinOver(s, lo + 1, hi)
         IN  IF s[lo] < m THEN s[lo] ELSE m

\* int(num/den): Python truncates toward zero
IntTrunc(num, den) ==
    IF num >= 0 THEN num \div den ELSE -((-num) \div den)

\* p/q < r/s for positive q, s
FracLt(a, b) == a[1] * b[2] < b[1] * a[2]
FracLe(a, b) == a[1] * b[2] <= b[1] * a[2]

\* the ramp over the first half of the epochs instead of the first tenth
TemperatureHalfRamp(e, n) ==
    IF 2 * e < n THEN <<2 * e, n>> ELSE <<1, 1>>

\* epoch / (n_epochs/10) if epoch < n_epochs/10 else 1.0
Temperature(e, n) ==
    IF RampDiv * e < n THEN <<RampDiv * e, n>> ELSE <<1, 1>>

\* best-loss tracking that does not look at the temperature
TempIgnored(t) == TRUE

\* temperature_kl == 1.0
TempIsOne(t) == t[1] = t[2]

\* epoch >= frac_start_save*n_epochs
PastStartSaveInclusive(e, fss, n) == e * fss[2] >= fss[1] * n

\* epoch > frac_start_save*n_epochs
PastStartSave(e, fss, n) == e * fss[2] > fss[1] * n

\* np.maximum(1, int(epoch - .25*n_epochs))
EpochLookback(e, n) ==
    LET k == IntTrunc(LookbackDen * e - n, LookbackDen)
    IN  IF k > 1 THEN k ELSE 1

\* an early-stop test made at every epoch
LookbackAlways(e, fss, n) == TRUE

\* an early-stop test made at every epoch past the save-start fraction
LookbackPastStartSave(e, fss, n) == PastStartSave(e, fss, n)

\* epoch_lookback > frac_start_save*n_epochs + 1
LookbackActive(e, fss, n) ==
    EpochLookback(e, n) * fss[2] > fss[1] * n + fss[2]

\* sign class of (loss_best - loss_best_lookback)/torch.abs(loss_best)
PercentImprovement(best, lookback) ==
    IF best = Inf THEN "nan"
    ELSE LET num == best - lookback
             den == Abs(best)
         IN  IF den = 0
             THEN (IF num = 0 THEN "nan" ELSE IF num < 0 THEN "neg" ELSE "pos")
             ELSE IF num * den < 0 THEN "neg"
                  ELSE IF num = 0 THEN "zero" ELSE "pos"

\* the test of line 1130: percent_improvement < 0.0
StopEarly(e, fss, n, ls, best) ==
    /\ LookbackActive(e, fss, n)
    /\ PercentImprovement(best, MinOver(ls, EpochLookback(e, n) + 1, e + 1)) = "neg"

\* the values model.loss can return at this point of the run
\*   "any":     any value at any epoch
\*   "plateau": non-increasing up to epoch PlateauStart, constant afterwards
\*   "step":    piecewise constant with at most one change
LossChoices ==
    IF scenario = "any" \/ epoch = 0 THEN Losses
    ELSE IF scenario = "plateau"
         THEN (IF epoch <= PlateauStart
               THEN {v \in Losses : v <= loss[epoch]}
               ELSE {loss[epoch]})
         ELSE (IF \E k \in 1..(epoch - 1) : loss[k] # loss[k + 1]
               THEN {loss[epoch]}
               ELSE Losses)

\* print_freq is not None and (epoch + 1) % print_freq == 0
Prints(e, pf) == pf # 0 /\ (e + 1) % pf = 0

\* ------------------------------------------------ RffHs / RffBeta protocol
\* the layers' state as one value, with the log of the call that starts
Layers == [n_draws |-> n_draws, in_stored |-> in_stored, in_aux |-> in_aux,
           out_conj |-> out_conj, out_w |-> out_w,
           noise_updates |-> noise_updates,
           fwd |-> <<>>, ops |-> <<>>, error |-> ""]

\* one more operation in the log of the call
Log(m, op) == [m EXCEPT !.ops = Append(m.ops, op)]

\* the call ends here with an exception
Raise(m, exc) == [m EXCEPT !.error = exc]

\* layer_in.sample_variational(store=True): a new draw, kept as the stored one
SampleVariational(m) ==
    Log([m EXCEPT !.n_draws = m.n_draws + 1, !.in_stored = m.n_draws + 1],
        "sample_variational")

\* layer_in(x, weights_type): the draw behind the hidden features;
\* 'stored' reads the stored sample, 'sample_post' takes a new draw
HiddenSample(m, weights_type) ==
    IF weights_type = "stored" THEN m.in_stored ELSE m.n_draws + 1

LayerIn(m, weights_type) ==
    LET h == HiddenSample(m, weights_type)
        m1 == IF weights_type = "stored" THEN m
              ELSE [m EXCEPT !.n_draws = m.n_draws + 1]
    IN  Log([m1 EXCEPT !.fwd = Append(m.fwd,
                [net |-> "layer_in", in |-> h, w |-> 0, stored_w |-> FALSE])],
            "layer_in")

\* layer_in.fixed_point_updates(): the auxiliary variables, in closed form
LayerInFixedPoint(m) ==
    Log([m EXCEPT !.in_aux = m.in_aux + 1], "layer_in.fixed_point_updates")

\* layer_out.fixed_point_updates(h, y): conjugate posterior given h
LayerOutFixedPoint(m, h) ==
    Log([m EXCEPT !.out_conj = h], "layer_out.fixed_point_updates")

\* layer_out.sample_weights(store=True): weights drawn from the conjugate
\* posterior and stored
SampleWeights(m) == Log([m EXCEPT !.out_w = m.out_conj], "sample_weights")

\* forward: h = layer_in(x, weights_type_layer_in);
\*          y = layer_out(h, weights_type_layer_out)
Forward(m, weights_type_layer_in, weights_type_layer_out) ==
    LET h == HiddenSample(m, weights_type_layer_in)
        m1 == IF weights_type_layer_in = "stored" THEN m
              ELSE [m EXCEPT !.n_draws = m.n_draws + 1]
        st == weights_type_layer_out = "stored"
    IN  Log([m1 EXCEPT !.fwd = Append(m.fwd,
                [net |-> "model", in |-> h,
                 w |-> IF st THEN m.out_w ELSE m.out_conj, stored_w |-> st])],
            "forward")

\* the parameters of forward(), by class
ForwardKeywords ==
    IF variant = "RffHs"
    THEN {"x", "x_linear", "weights_type_layer_in", "weights_type_layer_out",
          "n_samp_layer_in"}
    ELSE {"x", "x_linear", "weights_type_layer_in", "weights_type_layer_out"}

\* self.forward(**kws): Python binds the keywords before the body runs
CallForward(m, kws, weights_type_layer_in, weights_type_layer_out) ==
    IF kws \subseteq ForwardKeywords
    THEN Forward(m, weights_type_layer_in, weights_type_layer_out)
    ELSE Raise(m, "TypeError")

\* kl_divergence(): reads the variational parameters
KlDivergence(m) == Log(m, "kl_divergence")

\* RffHs.log_prob divides by self.sig2_inv, which __init__ leaves at None
\* when infer_noise is set; RffBeta.neg_log_prob has a branch for it
LogProb(m) ==
    IF variant = "RffHs"
    THEN IF infer_noise THEN Raise(m, "TypeError") ELSE Log(m, "log_prob")
    ELSE Log(m, "neg_log_prob")

\* RffHs.loss with a final forward pass that draws again
RffHsLossResamples(m) ==
    LET m0 == KlDivergence(m)
        m1 == SampleVariational(m0)
        m2 == LayerIn(m1, "stored")
        m3 == LayerOutFixedPoint(m2, HiddenSample(m1, "stored"))
        m4 == SampleWeights(m3)
    IN  LogProb(Forward(m4, "sample_post", "stored"))

\* RffHs.loss: kl_divergence, steps 1-4, log_prob
RffHsLoss(m) ==
    LET m0 == KlDivergence(m)
        m1 == SampleVariational(m0)
        m2 == LayerIn(m1, "stored")
        m3 == LayerOutFixedPoint(m2, HiddenSample(m1, "stored"))
        m4 == SampleWeights(m3)
    IN  LogProb(Forward(m4, "stored", "stored"))

\* RffHs.sample_posterior_predictive
RffHsSamplePosteriorPredictive(m) ==
    LET m1 == SampleVariational(m)
        m2 == LayerIn(m1, "stored")
        m3 == LayerOutFixedPoint(m2, HiddenSample(m1, "stored"))
        m4 == SampleWeights(m3)
    IN  Forward(m4, "stored", "stored")

\* RffBeta.loss
RffBetaLoss(m) ==
    LogProb(KlDivergence(Forward(m, "sample_post", "stored")))

\* layer_in.log_prob_variational(): reads the stored sample and the
\* variational parameters
LogProbVariational(m) == Log(m, "log_prob_variational")

\* RffBeta.compute_loss_gradients, the calls of the layers: the draw, the
\* likelihood, log q and the KL term
RffBetaLossGradients(m) ==
    KlDivergence(LogProbVariational(
        LogProb(Forward(SampleVariational(m), "stored", "stored"))))

\* RffHs.loss_original: a forward pass on a new draw of the input layer and
\* the stored output weights; nothing is stored
RffHsLossOriginal(m) ==
    LogProb(KlDivergence(Forward(m, "sample_post", "stored")))

\* init_parameters(seed): the parameters of the layers, and the noise
\* posterior, as initialised; the stored samples are not parameters
InitParameters(m) ==
    Log([m EXCEPT !.in_aux = 0, !.out_conj = 0, !.noise_updates = 0],
        "init_parameters")

\* RffBeta.fixed_point_updates, output layer
RffBetaFixedPoint(m) ==
    LET m1 == LayerIn(m, "sample_post")
        m2 == LayerOutFixedPoint(m1, HiddenSample(m, "sample_post"))
    IN  SampleWeights(m2)

\* the noise update at the end of fixed_point_updates: a forward pass
\* called with sample=True, then sig2_inv_alpha and sig2_inv_beta
NoiseUpdate(m) ==
    LET m1 == CallForward(m, {"x", "x_linear", "sample"}, "sample_post",
                          "sample_post")
    IN  IF m1.error # "" THEN m1
        ELSE Log([m1 EXCEPT !.noise_updates = m1.noise_updates + 1],
                 "noise_update")

\* model.loss(x, y, temperature)
ModelLoss(m) == IF variant = "RffHs" THEN RffHsLoss(m) ELSE RffBetaLoss(m)

\* model.fixed_point_updates(x, y, temperature)
ModelFixedPointUpdates(m, temperature) ==
    LET m1 == IF variant = "RffHs" THEN LayerInFixedPoint(m)
              ELSE RffBetaFixedPoint(m)
    IN  IF infer_noise /\ temperature > 0 THEN NoiseUpdate(m1) ELSE m1

\* model.reinit_parameters(x, y, n_reinit=1): initialise, evaluate the loss,
\* initialise again from the seed of the least loss
ModelReinitParameters(m) ==
    LET m1 == ModelLoss(InitParameters(m))
    IN  IF m1.error # "" THEN m1 ELSE InitParameters(m1)

\* a print_state that only reads: the KL term and nothing else
ModelPrintStateReadOnly(m) == KlDivergence(m)

\* model.print_state(x, y, epoch, n_epochs): kl_divergence(), then
\* loss(temperature=0) and loss()
ModelPrintState(m) ==
    LET m1 == ModelLoss(KlDivergence(m))
    IN  IF m1.error # "" THEN m1 ELSE ModelLoss(m1)

\* what the layers hold between calls
StoredState(m) ==
    [in_stored |-> m.in_stored, in_aux |-> m.in_aux, out_conj |-> m.out_conj,
     out_w |-> m.out_w, noise_updates |-> m.noise_updates]

\* a call that starts from the state another call left
Fresh(m) == [m EXCEPT !.fwd = <<>>, !.ops = <<>>, !.error = ""]

\* the layers' state written back
SetLayers(m) ==
    /\ n_draws' = m.n_draws
    /\ in_stored' = m.in_stored
    /\ in_aux' = m.in_aux
    /\ out_conj' = m.out_conj
    /\ out_w' = m.out_w
    /\ noise_updates' = m.noise_updates
    /\ fwd' = m.fwd
    /\ ops' = m.ops
    /\ error' = m.error

\* --------------------------------------------------------------- the state
TrainInit(sc, ns, reps, fss, fls, pfs) ==
    /\ scenario = sc
    /\ n_epochs \in ns
    /\ frac_start_save \in fss
    /\ frac_lookback \in fls
    /\ n_rep_opt \in reps
    /\ print_freq \in pfs
    /\ pc = "loop"
    /\ epoch = -1
    /\ i = 0
    /\ temperature_kl = <<0, 1>>
    /\ l = 0
    /\ loss = [k \in 1..n_epochs |-> 0]
    /\ loss_best = Inf
    /\ loss_best_saved = Inf
    /\ saved_model = FALSE
    /\ checkpoint = <<>>
    /\ model_state = [epoch |-> -1, step |-> 0, fp |-> FALSE, printed |-> FALSE]
    /\ optimizer_state = [epoch |-> -1, step |-> 0]
    /\ stopped_early = FALSE
    /\ reloaded = FALSE
    /\ ret = <<>>
    /\ saves = <<>>
    /\ temps = <<>>
    /\ l_state = [epoch |-> -1, step |-> 0, fp |-> FALSE, printed |-> FALSE]
    /\ ev = <<>>

\* a model after __init__ and init_parameters
ModelInit(vs, ns) ==
    /\ variant \in vs
    /\ infer_noise \in ns
    /\ n_draws = 0
    /\ in_stored = 0
    /\ in_aux = 0
    /\ out_conj = 0
    /\ out_w = 0
    /\ noise_updates = 0
    /\ last_call = "init_parameters"
    /\ last_temperature = <<0, 1>>
    /\ fwd = <<>>
    /\ ops = <<>>
    /\ error = ""

\* an RffGradPenHyper_v2 before a call of `es`
MapInit(es, gs) ==
    /\ entry \in es
    /\ map_pc = "call"
    /\ map_iter = 0
    /\ map_grad \in gs
    /\ optim_results = <<>>
    /\ lengthscale_map = <<>>
    /\ train_infer_hyper = FALSE
    /\ printed = {}
    /\ map_ret = <<>>

\* the variational parameters of RffBetaLayer that get a gradient
Params == {"s_a_trans", "s_b_trans"}

\* no backward pass has run: every .grad is None, no gradient is captured
GradInit ==
    /\ grad = [p \in Params |-> <<>>]
    /\ grad_q = [p \in Params |-> <<>>]
    /\ grad_kl = [p \in Params |-> <<>>]
    /\ score = <<>>

\* groups=None, scale_groups=None
NoGroups == [groups |-> <<>>, scale_groups |-> <<>>]

\* a network of class `cs` after __init__
PenInit(cs, pts, dims, sgs, gs, ls) ==
    /\ \E c \in cs, pt \in pts, d \in dims, sg \in sgs, g \in gs :
          /\ \A k \in 1..Len(g.groups) : g.groups[k] \subseteq 1..d
          /\ (c # "RffGradPen") => g.groups = <<>>
          /\ net = [class |-> c, penalty_type |-> pt, dim_in |-> d,
                    scale_global |-> sg, groups |-> g.groups,
                    scale_groups |-> g.scale_groups]
    /\ lengthscale \in ls
    /\ built = <<>>
    /\ evaluation = <<>>

\* the other components at rest
Idle ==
    /\ GradInit
    /\ PenInit({"RffGradPen"}, {"l1"}, {1}, {<<1>>}, {NoGroups}, {Unit})

Init ==
    /\ Idle
    /\ TrainInit("any", 1..MaxEpochs, 1..MaxRepOpt, Fracs, LookbackFracs,
                 PrintFreqs)
    /\ ModelInit({"RffHs"}, {FALSE})
    /\ MapInit({"train_map"}, {0})

\* ------------------------------------------------------------------- train
\* no temperature: an event that is not a call of the model
NA == <<0, 0>>

\* one statement of train as an event: a call `op` of the model with the
\* layer operations `inner` it ran, gradient tracking `g`, temperature `t`
Event(op, inner, g, t) ==
    <<[op |-> op, ops |-> inner, grad |-> g, temp |-> t]>>

\* torch.is_grad_enabled() under a no_grad block that does not take effect
NoGradBlockOpen == TRUE

\* torch.is_grad_enabled() inside `with torch.no_grad():`
NoGradBlock == FALSE

\* an inner loop that ends one pass early
InnerLoopDoneEarly(k, reps) == k >= reps - 1

\* `for i in range(n_rep_opt)` is exhausted
InnerLoopDone(k, reps) == k >= reps

\* a checkpoint that holds the parameters the loss was evaluated on
CheckpointOfEvaluatedState(e, ms, st, os, lv) ==
    [epoch |-> e, model_state_dict |-> l_state, layers_state_dict |-> st,
     optimizer_state_dict |-> os, loss |-> lv]

\* the dictionary torch.save writes to checkpoint.tar; layers_state_dict is
\* the part of model.state_dict() that holds what the layers store, read
\* back only if the layers register it
CheckpointRecord(e, ms, st, os, lv) ==
    [epoch |-> e, model_state_dict |-> ms, layers_state_dict |-> st,
     optimizer_state_dict |-> os, loss |-> lv]

\* model.load_state_dict(checkpoint['model_state_dict']): the parameters
\* and the noise posterior (buffers of the network) come back; what the
\* layers store comes back with them when the layers register it
\* (`buffers`) and stays as the last epoch left it otherwise
LoadStateDict(load, buffers) ==
    LET ck == checkpoint[1]
    IN  IF ~load
        THEN UNCHANGED <<model_state, in_stored, in_aux, out_conj, out_w,
                         noise_updates>>
        ELSE IF buffers
        THEN /\ model_state' = ck.model_state_dict
             /\ noise_updates' = ck.layers_state_dict.noise_updates
             /\ in_stored' = ck.layers_state_dict.in_stored
             /\ in_aux' = ck.layers_state_dict.in_aux
             /\ out_conj' = ck.layers_state_dict.out_conj
             /\ out_w' = ck.layers_state_dict.out_w
        ELSE /\ model_state' = [ck.model_state_dict EXCEPT
                                   !.printed = model_state.printed]
             /\ noise_updates' = ck.layers_state_dict.noise_updates
             /\ UNCHANGED <<in_stored, in_aux, out_conj, out_w>>

\* what a reload leaves alone: the configuration, the random stream and
\* the record of the last call
ReloadFrame ==
    UNCHANGED <<modelConfig, n_draws, last_call, last_temperature, fwd, ops,
                error>>

\* the values the log-likelihood and the two derivatives can take
LogLiks == {-2, -1}
DLogQ == [Params -> {-1, 1}]
DKl == [Params -> {0, 1}]

\* `for p in parameters: if p.grad is not None: p.grad.zero_()`
ZeroGrads(g) == [p \in Params |-> IF g[p] = <<>> THEN <<>> ELSE <<0>>]

\* l.backward() of train on buffers that zero_grad cleared: the draw of
\* the input layer carries no gradient, the KL term does, scaled by the
\* temperature (0 or 1 in runs of up to RampDiv epochs)
TrainGradients(g, t, dkl) ==
    [p \in Params |->
        IF g[p] = <<>> THEN <<(t[1] * dkl[p]) \div t[2]>>
        ELSE <<g[p][1] + (t[1] * dkl[p]) \div t[2]>>]

\* for epoch in range(n_epochs): temperature_kl = ...
EpochBegin ==
    /\ pc = "loop"
    /\ epoch + 1 < n_epochs
    /\ epoch' = epoch + 1
    /\ temperature_kl' = Temperature(epoch + 1, n_epochs)
    /\ i' = 0
    /\ ev' = <<>>
    /\ pc' = "opt"
    /\ UNCHANGED <<trainInputs, l, loss, loss_best, loss_best_saved,
                   saved_model, checkpoint, model_state, optimizer_state,
                   stopped_early, reloaded, ret, saves, temps, l_state>>
    /\ UNCHANGED <<modelVars, mapVars, gradVars, penVars>>

\* one pass of `for i in range(n_rep_opt)`: loss, zero_grad, backward, step;
\* an exception in model.loss ends train
GradStep ==
    /\ pc = "opt"
    /\ ~InnerLoopDone(i, n_rep_opt)
    /\ \E m \in {ModelLoss(Layers)} :
       LET call == Event("model.loss", m.ops, TRUE, temperature_kl)
       IN  /\ SetLayers(m)
           /\ last_call' = "loss"
           /\ last_temperature' = temperature_kl
           /\ temps' = IF i = 0 THEN Append(temps, temperature_kl) ELSE temps
           /\ IF m.error # ""
              THEN /\ pc' = "raised"
                   /\ ev' = ev \o call
                   /\ UNCHANGED <<l, i, model_state, optimizer_state, l_state,
                                  grad>>
              ELSE /\ \E v \in LossChoices : l' = v
                   /\ IF variant = "RffBeta"
                      THEN \E set_to_none \in BOOLEAN, dkl \in DKl :
                              grad' = TrainGradients(
                                          IF set_to_none
                                          THEN [p \in Params |-> <<>>]
                                          ELSE ZeroGrads(grad),
                                          temperature_kl, dkl)
                      ELSE UNCHANGED grad
                   /\ i' = i + 1
                   /\ l_state' = model_state
                   /\ model_state' = [epoch |-> epoch, step |-> i + 1,
                                      fp |-> FALSE, printed |-> FALSE]
                   /\ optimizer_state' = [epoch |-> epoch, step |-> i + 1]
                   /\ ev' = ev \o call
                              \o Event("zero_grad", <<>>, TRUE, NA)
                              \o Event("backward", <<>>, TRUE, temperature_kl)
                              \o Event("step", <<>>, TRUE, NA)
                   /\ pc' = pc
    /\ UNCHANGED <<trainInputs, epoch, temperature_kl, loss, loss_best,
                   loss_best_saved, saved_model, checkpoint, stopped_early,
                   reloaded, ret, saves>>
    /\ UNCHANGED <<modelConfig, mapVars, grad_q, grad_kl, score, penVars>>

\* the rest of the epoch, lines 1099-1132: record the loss, fixed-point
\* updates under no_grad, print_state, best loss, checkpoint, early stop
EpochEnd ==
    /\ pc = "opt"
    /\ InnerLoopDone(i, n_rep_opt)
    /\ \E m \in {ModelFixedPointUpdates(Layers, 1)} :
       \E mp \in {IF Prints(epoch, print_freq) /\ m.error = ""
                  THEN ModelPrintState(Fresh(m)) ELSE m} :
       LET loss1 == [loss EXCEPT ![epoch + 1] = l]
           prints == Prints(epoch, print_freq) /\ m.error = ""
           ms1 == [model_state EXCEPT
                      !.fp = TRUE,
                      !.printed = StoredState(mp) # StoredState(m)]
           best1 == IF l < loss_best /\ TempIsOne(temperature_kl)
                    THEN l ELSE loss_best
           save == PastStartSave(epoch, frac_start_save, n_epochs)
                       /\ l < loss_best_saved
           ev1 == ev \o Event("record", <<>>, TRUE, NA)
                     \o Event("model.fixed_point_updates", m.ops,
                              NoGradBlock, <<1, 1>>)
                     \o (IF prints
                         THEN Event("model.print_state", mp.ops, TRUE, NA)
                         ELSE <<>>)
       IN  /\ loss' = loss1
           /\ model_state' = ms1
           /\ SetLayers(mp)
           /\ last_call' = IF prints THEN "print_state"
                           ELSE "fixed_point_updates"
           /\ last_temperature' = <<1, 1>>
           /\ IF mp.error # ""
              THEN /\ pc' = "raised"
                   /\ ev' = ev1
                   /\ UNCHANGED <<loss_best, saved_model, loss_best_saved,
                                  checkpoint, saves, stopped_early>>
              ELSE /\ loss_best' = best1
                   /\ saved_model' = (saved_model \/ save)
                   /\ loss_best_saved' = IF save THEN l ELSE loss_best_saved
                   /\ checkpoint' = IF save
                          THEN <<CheckpointRecord(epoch, ms1,
                                                  StoredState(mp),
                                                  optimizer_state, l)>>
                          ELSE checkpoint
                   /\ saves' = IF save THEN Append(saves, epoch) ELSE saves
                   /\ ev' = ev1 \o Event("best", <<>>, TRUE, NA)
                                  \o (IF save
                                      THEN Event("save", <<>>, TRUE, NA)
                                      ELSE <<>>)
                                  \o Event("stop_test", <<>>, TRUE, NA)
                   /\ IF StopEarly(epoch, frac_start_save, n_epochs, loss1,
                                   best1)
                      THEN pc' = "exit" /\ stopped_early' = TRUE
                      ELSE pc' = "loop" /\ stopped_early' = FALSE
    /\ UNCHANGED <<trainInputs, epoch, i, temperature_kl, l, optimizer_state,
                   reloaded, ret, temps, l_state>>
    /\ UNCHANGED <<modelConfig, mapVars, gradVars, penVars>>

\* exit that keeps the final iterate although it reads the checkpoint
FinishKeepsFinalIterate ==
    /\ \/ pc = "exit"
       \/ pc = "loop" /\ epoch + 1 >= n_epochs
    /\ reloaded' = saved_model
    /\ ret' = SubSeq(loss, 1, epoch)
    /\ pc' = "done"
    /\ UNCHANGED <<trainInputs, epoch, i, temperature_kl, l, loss,
                   loss_best, loss_best_saved, saved_model, checkpoint,
                   model_state, optimizer_state, stopped_early, saves, temps,
                   l_state, ev>>
    /\ UNCHANGED <<modelVars, mapVars, gradVars, penVars>>

\* exit that reloads only after an early stop
FinishReloadsOnEarlyStop ==
    /\ \/ pc = "exit"
       \/ pc = "loop" /\ epoch + 1 >= n_epochs
    /\ reloaded' = (saved_model /\ stopped_early)
    /\ \E buffers \in BOOLEAN :
          LoadStateDict(saved_model /\ stopped_early, buffers)
    /\ ret' = SubSeq(loss, 1, epoch)
    /\ pc' = "done"
    /\ UNCHANGED <<trainInputs, epoch, i, temperature_kl, l, loss,
                   loss_best, loss_best_saved, saved_model, checkpoint,
                   optimizer_state, stopped_early, saves, temps, l_state, ev>>
    /\ ReloadFrame
    /\ UNCHANGED <<mapVars, gradVars, penVars>>

\* exit that returns the loss of every epoch that ran
FinishReturnsAllLosses ==
    /\ \/ pc = "exit"
       \/ pc = "loop" /\ epoch + 1 >= n_epochs
    /\ reloaded' = saved_model
    /\ \E buffers \in BOOLEAN : LoadStateDict(saved_model, buffers)
    /\ ret' = SubSeq(loss, 1, epoch + 1)
    /\ pc' = "done"
    /\ UNCHANGED <<trainInputs, epoch, i, temperature_kl, l, loss,
                   loss_best, loss_best_saved, saved_model, checkpoint,
                   optimizer_state, stopped_early, saves, temps, l_state, ev>>
    /\ ReloadFrame
    /\ UNCHANGED <<mapVars, gradVars, penVars>>

\* after the loop: reload the checkpoint if one was saved, return loss[:epoch]
Finish ==
    /\ \/ pc = "exit"
       \/ pc = "loop" /\ epoch + 1 >= n_epochs
    /\ reloaded' = saved_model
    /\ \E buffers \in BOOLEAN : LoadStateDict(saved_model, buffers)
    /\ ret' = SubSeq(loss, 1, epoch)
    /\ pc' = "done"
    /\ UNCHANGED <<trainInputs, epoch, i, temperature_kl, l, loss,
                   loss_best, loss_best_saved, saved_model, checkpoint,
                   optimizer_state, stopped_early, saves, temps, l_state, ev>>
    /\ ReloadFrame
    /\ UNCHANGED <<mapVars, gradVars, penVars>>

Next == EpochBegin \/ GradStep \/ EpochEnd \/ Finish

Spec == Init /\ [][Next]_vars

\* the early-stopping scenario: 100 epochs, frac_start_save = 0.5, a loss
\* sequence that is non-increasing up to epoch 50 and constant from there on
InitPlateau ==
    /\ Idle
    /\ TrainInit("plateau", {PlateauEpochs}, {1}, {<<1, 2>>}, {<<1, 4>>}, {0})
    /\ ModelInit({"RffHs"}, {FALSE})
    /\ MapInit({"train_map"}, {0})

SpecPlateau == InitPlateau /\ [][Next]_vars

\* runs with a temperature ramp of several epochs and one change of the loss
InitRamp ==
    /\ Idle
    /\ TrainInit("step", {ShortRampEpochs, PlateauEpochs}, {1}, Fracs,
                 {<<1, 2>>}, {0})
    /\ ModelInit({"RffHs"}, {FALSE})
    /\ MapInit({"train_map"}, {0})

SpecRamp == InitRamp /\ [][Next]_vars

\* short runs of either network, with and without inferred noise, that
\* follow every call train makes on the model
InitEpoch ==
    /\ Idle
    /\ TrainInit("any", 1..MaxProtocolEpochs, 1..MaxRepOpt, Fracs,
                 {<<1, 4>>}, PrintFreqs)
    /\ ModelInit({"RffHs", "RffBeta"}, BOOLEAN)
    /\ MapInit({"train_map"}, {0})

SpecEpoch == InitEpoch /\ [][Next]_vars

\* ------------------------------------------------- the model, call by call
\* model.loss(x, y, temperature)
Loss ==
    /\ n_draws < MaxSamples
    /\ \E temperature \in {0, 1} : last_temperature' = <<temperature, 1>>
    /\ \E m \in {ModelLoss(Layers)} : SetLayers(m)
    /\ last_call' = "loss"
    /\ UNCHANGED <<modelConfig, trainVars, mapVars, gradVars, penVars>>

\* model.sample_posterior_predictive(x_test, x_train, y_train): RffHs only
SamplePosteriorPredictive ==
    /\ variant = "RffHs"
    /\ n_draws < MaxSamples
    /\ \E m \in {RffHsSamplePosteriorPredictive(Layers)} : SetLayers(m)
    /\ last_call' = "sample_posterior_predictive"
    /\ UNCHANGED <<modelConfig, last_temperature, trainVars, mapVars,
                   gradVars, penVars>>

\* model.loss_original(x, y, temperature): RffHs only
LossOriginal ==
    /\ variant = "RffHs"
    /\ n_draws < MaxSamples
    /\ \E temperature \in {0, 1} : last_temperature' = <<temperature, 1>>
    /\ \E m \in {RffHsLossOriginal(Layers)} : SetLayers(m)
    /\ last_call' = "loss_original"
    /\ UNCHANGED <<modelConfig, trainVars, mapVars, gradVars, penVars>>

\* model.forward(x, weights_type_layer_in, weights_type_layer_out) called
\* on its own; both default to 'sample_post'
ForwardCall ==
    /\ n_draws < MaxSamples
    /\ \E wi, wo \in {"sample_post", "stored"} :
       \E m \in {Forward(Layers, wi, wo)} : SetLayers(m)
    /\ last_call' = "forward"
    /\ UNCHANGED <<modelConfig, last_temperature, trainVars, mapVars,
                   gradVars, penVars>>

\* model.init_parameters(seed) called on its own
InitParametersCall ==
    /\ \E m \in {InitParameters(Layers)} : SetLayers(m)
    /\ last_call' = "init_parameters"
    /\ UNCHANGED <<modelConfig, last_temperature, trainVars, mapVars,
                   gradVars, penVars>>

\* model.reinit_parameters(x, y)
ReinitParameters ==
    /\ n_draws < MaxSamples
    /\ \E m \in {ModelReinitParameters(Layers)} : SetLayers(m)
    /\ last_call' = "reinit_parameters"
    /\ UNCHANGED <<modelConfig, last_temperature, trainVars, mapVars,
                   gradVars, penVars>>

\* buffers that keep what the previous backward pass left
ZeroGradsSkipped(g) == g

\* `for p in parameters: p.grad.zero_()`, every .grad being a tensor by now
ZeroGradsAll(g) == [p \in Params |-> <<0>>]

\* f.backward(): d f / d p is written to a .grad that is None and added to
\* one that is a tensor
Backward(g, d) ==
    [p \in Params |-> IF g[p] = <<>> THEN <<d[p]>> ELSE <<g[p][1] + d[p]>>]

\* lines 941-964: the two backward passes and the gradient of -elbo
ScoreGradients(g, log_lik, dq, dkl, temperature) ==
    LET g_q == Backward(ZeroGrads(g), dq)
        g_kl == Backward(ZeroGradsAll(g_q), dkl)
    IN  [grad_q |-> g_q,
         grad_kl |-> g_kl,
         grad |-> [p \in Params |->
                     <<-log_lik * g_q[p][1] + temperature * g_kl[p][1]>>]]

\* model.compute_loss_gradients(x, y, temperature): RffBeta only
ComputeLossGradients ==
    /\ variant = "RffBeta"
    /\ n_draws < MaxSamples
    /\ \E m \in {RffBetaLossGradients(Layers)} : SetLayers(m)
    /\ \E temperature \in {0, 1}, log_lik \in LogLiks, dq \in DLogQ,
          dkl \in DKl :
          /\ last_temperature' = <<temperature, 1>>
          /\ score' = <<[log_lik |-> log_lik, dq |-> dq, dkl |-> dkl,
                         temperature |-> temperature, drawn |-> n_draws + 1]>>
          /\ \E r \in {ScoreGradients(grad, log_lik, dq, dkl, temperature)} :
                /\ grad' = r.grad
                /\ grad_q' = r.grad_q
                /\ grad_kl' = r.grad_kl
    /\ last_call' = "compute_loss_gradients"
    /\ UNCHANGED <<modelConfig, trainVars, mapVars, penVars>>

\* optimizer.zero_grad() of train_score: every .grad becomes None or is
\* zeroed in place, depending on set_to_none of the torch version
OptimizerZeroGrad ==
    /\ variant = "RffBeta"
    /\ \E set_to_none \in BOOLEAN :
          grad' = IF set_to_none THEN [p \in Params |-> <<>>]
                  ELSE ZeroGrads(grad)
    /\ last_call' = "zero_grad"
    /\ UNCHANGED <<modelConfig, n_draws, in_stored, in_aux, out_conj, out_w,
                   noise_updates, last_temperature, fwd, ops, error>>
    /\ UNCHANGED <<grad_q, grad_kl, score, trainVars, mapVars, penVars>>

\* model.fixed_point_updates(x, y, temperature)
FixedPointUpdates ==
    /\ n_draws < MaxSamples
    /\ in_aux < MaxSamples
    /\ \E temperature \in {0, 1} :
          /\ \E m \in {ModelFixedPointUpdates(Layers, temperature)} :
                SetLayers(m)
          /\ last_temperature' = <<temperature, 1>>
    /\ last_call' = "fixed_point_updates"
    /\ UNCHANGED <<modelConfig, trainVars, mapVars, gradVars, penVars>>

InitModel ==
    /\ GradInit
    /\ PenInit({"RffGradPen"}, {"l1"}, {1}, {<<1>>}, {NoGroups}, {Unit})
    /\ TrainInit("any", {1}, {1}, {<<1, 1>>}, {<<1, 2>>}, {0})
    /\ ModelInit({"RffHs", "RffBeta"}, BOOLEAN)
    /\ MapInit({"train_map"}, {0})

NextModel ==
    Loss \/ LossOriginal \/ ForwardCall \/ InitParametersCall
        \/ ReinitParameters
        \/ SamplePosteriorPredictive \/ ComputeLossGradients
        \/ OptimizerZeroGrad \/ FixedPointUpdates

SpecModel == InitModel /\ [][NextModel]_vars

\* ------------------------------------------------------------ train_score
\* the call of train_score on an RffBeta: loss = zeros, loss_best = 1e9
ScoreEnter ==
    /\ pc = "loop"
    /\ epoch = -1
    /\ variant = "RffBeta"
    /\ loss' = [k \in 1..n_epochs |-> 0]
    /\ loss_best' = ScoreBest
    /\ pc' = "score_loop"
    /\ UNCHANGED <<trainInputs, epoch, i, temperature_kl, l, loss_best_saved,
                   saved_model, checkpoint, model_state, optimizer_state,
                   stopped_early, reloaded, ret, saves, temps, l_state, ev>>
    /\ UNCHANGED <<modelVars, mapVars, gradVars, penVars>>

\* for epoch in range(n_epochs): temperature_kl = 0.
ScoreEpochBegin ==
    /\ pc = "score_loop"
    /\ epoch + 1 < n_epochs
    /\ epoch' = epoch + 1
    /\ temperature_kl' = <<0, 1>>
    /\ i' = 0
    /\ ev' = <<>>
    /\ pc' = "score_opt"
    /\ UNCHANGED <<trainInputs, l, loss, loss_best, loss_best_saved,
                   saved_model, checkpoint, model_state, optimizer_state,
                   stopped_early, reloaded, ret, saves, temps, l_state>>
    /\ UNCHANGED <<modelVars, mapVars, gradVars, penVars>>

\* one pass of `for i in range(n_rep_opt)`: zero_grad,
\* compute_loss_gradients at temperature_kl, clip_grad_norm_, step
ScoreStep ==
    /\ pc = "score_opt"
    /\ ~InnerLoopDone(i, n_rep_opt)
    /\ \E m \in {RffBetaLossGradients(Layers)} :
          /\ SetLayers(m)
          /\ ev' = ev \o Event("zero_grad", <<>>, TRUE, NA)
                     \o Event("model.compute_loss_gradients", m.ops, TRUE,
                              temperature_kl)
                     \o Event("clip_grad_norm_", <<>>, TRUE, NA)
                     \o Event("step", <<>>, TRUE, NA)
    /\ \E set_to_none \in BOOLEAN, log_lik \in LogLiks, dq \in DLogQ,
          dkl \in DKl :
          /\ score' = <<[log_lik |-> log_lik, dq |-> dq, dkl |-> dkl,
                         temperature |-> temperature_kl[1],
                         drawn |-> n_draws + 1]>>
          /\ \E r \in {ScoreGradients(IF set_to_none
                                       THEN [p \in Params |-> <<>>]
                                       ELSE ZeroGrads(grad),
                                       log_lik, dq, dkl, temperature_kl[1])} :
                /\ grad' = r.grad
                /\ grad_q' = r.grad_q
                /\ grad_kl' = r.grad_kl
    /\ last_call' = "compute_loss_gradients"
    /\ last_temperature' = temperature_kl
    /\ temps' = IF i = 0 THEN Append(temps, temperature_kl) ELSE temps
    /\ i' = i + 1
    /\ model_state' = [epoch |-> epoch, step |-> i + 1, fp |-> FALSE,
                       printed |-> FALSE]
    /\ optimizer_state' = [epoch |-> epoch, step |-> i + 1]
    /\ UNCHANGED <<trainInputs, pc, epoch, temperature_kl, l, loss, loss_best,
                   loss_best_saved, saved_model, checkpoint, stopped_early,
                   reloaded, ret, saves, l_state>>
    /\ UNCHANGED <<modelConfig, mapVars, penVars>>

\* the rest of the epoch, lines 1167-1182: fixed-point updates under
\* no_grad, checkpoint, print_state; an exception ends train_score
ScoreEpochEnd ==
    /\ pc = "score_opt"
    /\ InnerLoopDone(i, n_rep_opt)
    /\ \E m \in {ModelFixedPointUpdates(Layers, 1)} :
       \E mp \in {IF Prints(epoch, print_freq) /\ m.error = ""
                  THEN ModelPrintState(Fresh(m)) ELSE m} :
       LET prints == Prints(epoch, print_freq) /\ m.error = ""
           ms1 == [model_state EXCEPT !.fp = TRUE]
           save == PastStartSave(epoch, frac_start_save, n_epochs)
                       /\ loss[epoch + 1] < loss_best
           ev1 == ev \o Event("model.fixed_point_updates", m.ops,
                              NoGradBlock, <<1, 1>>)
       IN  /\ SetLayers(mp)
           /\ last_call' = IF prints THEN "print_state"
                           ELSE "fixed_point_updates"
           /\ last_temperature' = <<1, 1>>
           /\ IF m.error # ""
              THEN /\ pc' = "raised"
                   /\ ev' = ev1
                   /\ model_state' = ms1
                   /\ UNCHANGED <<loss_best, checkpoint, saves>>
              ELSE /\ loss_best' = IF save THEN loss[epoch + 1]
                                   ELSE loss_best
                   /\ checkpoint' = IF save
                          THEN <<CheckpointRecord(epoch, ms1,
                                                  StoredState(m),
                                                  optimizer_state,
                                                  loss[epoch + 1])>>
                          ELSE checkpoint
                   /\ saves' = IF save THEN Append(saves, epoch) ELSE saves
                   /\ model_state' =
                          [ms1 EXCEPT
                              !.printed = StoredState(mp) # StoredState(m)]
                   /\ ev' = ev1 \o (IF save
                                     THEN Event("save", <<>>, TRUE, NA)
                                     ELSE <<>>)
                                \o (IF prints
                                    THEN Event("model.print_state", mp.ops,
                                               TRUE, NA)
                                    ELSE <<>>)
                   /\ pc' = IF mp.error # "" THEN "raised" ELSE "score_loop"
    /\ UNCHANGED <<trainInputs, epoch, i, temperature_kl, l, loss,
                   loss_best_saved, saved_model, optimizer_state,
                   stopped_early, reloaded, ret, temps, l_state>>
    /\ UNCHANGED <<modelConfig, mapVars, gradVars, penVars>>

\* after the loop: return loss
ScoreFinish ==
    /\ pc = "score_loop"
    /\ epoch + 1 >= n_epochs
    /\ ret' = loss
    /\ pc' = "score_done"
    /\ UNCHANGED <<trainInputs, epoch, i, temperature_kl, l, loss,
                   loss_best, loss_best_saved, saved_model, checkpoint,
                   model_state, optimizer_state, stopped_early, reloaded,
                   saves, temps, l_state, ev>>
    /\ UNCHANGED <<modelVars, mapVars, gradVars, penVars>>

\* short runs of train_score on an RffBeta, with and without inferred noise
InitScore ==
    /\ Idle
    /\ TrainInit("any", 1..MaxProtocolEpochs, 1..MaxRepOpt, Fracs,
                 {<<1, 4>>}, PrintFreqs)
    /\ ModelInit({"RffBeta"}, BOOLEAN)
    /\ MapInit({"train_map"}, {0})

NextScore ==
    ScoreEnter \/ ScoreEpochBegin \/ ScoreStep \/ ScoreEpochEnd
        \/ ScoreFinish

SpecScore == InitScore /\ [][NextScore]_vars

\* ------------------------------------ RffGradPen*: the log-posterior
Classes == {"RffGradPen", "RffGradPenHyper", "RffGradPenHyper_v2"}
PenaltyTypes == {"l1", "l2", "other"}
ScaleLists == {<<1>>, <<2, 1>>, <<1, 2, 2>>}
\* input dimensions are numbered from 1
GroupLists == {NoGroups,
               [groups |-> <<{1}>>, scale_groups |-> <<2>>],
               [groups |-> <<{1, 2}, {2}>>, scale_groups |-> <<1, 2>>]}
\* the values w^T A_d w takes
Quads == {0, 1, 4}

Min(a, b) == IF a < b THEN a ELSE b

IsSquare(v) == \E r \in 0..v : r * r = v

\* tf.math.sqrt on perfect squares
Sqrt(v) == CHOOSE r \in 0..v : r * r = v

RECURSIVE SumOver(_, _)
\* w^T (sum of A_d over d in G) w = sum of w^T A_d w: line 157
SumOver(q, G) ==
    IF G = {} THEN 0
    ELSE LET d == CHOOSE x \in G : TRUE
         IN  q[d] + SumOver(q, G \ {d})

\* a loop whose last branch takes every penalty type but 'l1'
DimTermsElse(q) ==
    [k \in 1..Min(Len(net.scale_global), net.dim_in) |->
        [kind |-> "dim", index |-> k, scale |-> net.scale_global[k],
         q |-> q[k],
         value |-> IF net.penalty_type = "l1"
                   THEN net.scale_global[k] * Sqrt(q[k])
                   ELSE net.scale_global[k] * q[k]]]

\* `for scale_global, A in zip(self.scale_global, Ax_d)`: one term per
\* pair, of the form the penalty type selects, none for another type
DimTerms(q) ==
    IF net.penalty_type \notin {"l1", "l2"} THEN <<>>
    ELSE [k \in 1..Min(Len(net.scale_global), net.dim_in) |->
            [kind |-> "dim", index |-> k, scale |-> net.scale_global[k],
             q |-> q[k],
             value |-> IF net.penalty_type = "l1"
                       THEN net.scale_global[k] * Sqrt(q[k])
                       ELSE net.scale_global[k] * q[k]]]

\* `for scale_groups, A in zip(self.scale_groups, Ax_groups_tf)`: RffGradPen
\* only, and only with groups
GroupTerms(q) ==
    IF net.class # "RffGradPen" THEN <<>>
    ELSE [k \in 1..Min(Len(net.scale_groups), Len(net.groups)) |->
            [kind |-> "group", index |-> k, scale |-> net.scale_groups[k],
             q |-> SumOver(q, net.groups[k]),
             value |-> net.scale_groups[k]
                           * Sqrt(SumOver(q, net.groups[k]))]]

\* an evaluation that reads the cached value whatever infer_hyper says
EvalLengthscaleCached(free, l_arg, cached) == cached

\* the lengthscale behind h and Ax_d in one evaluation: the argument when
\* they are recomputed, the lengthscale of the cached values otherwise
EvalLengthscale(free, l_arg, cached) == IF free THEN l_arg ELSE cached

\* make_unnormalized_log_prob(_tf)(x, y[, infer_hyper]): RffGradPen and
\* RffGradPenHyper_v2 compute h and Ax_d from self.lengthscale here,
\* RffGradPenHyper computes neither
MakeLogProb ==
    /\ \E ih \in BOOLEAN :
          /\ net.class = "RffGradPen" => ~ih
          /\ net.class = "RffGradPenHyper" => ih
          /\ built' = <<[infer_hyper |-> ih,
                         h |-> IF net.class = "RffGradPenHyper" THEN 0
                               ELSE lengthscale,
                         Ax_d |-> IF net.class = "RffGradPenHyper" THEN 0
                                  ELSE lengthscale]>>
    /\ evaluation' = <<>>
    /\ UNCHANGED <<net, lengthscale>>
    /\ UNCHANGED <<trainVars, modelVars, mapVars, gradVars>>

\* a MAP run between two calls of the log-posterior: train_map and
\* train_map_old assign self.lengthscale
SetLengthscale ==
    /\ net.class = "RffGradPenHyper_v2"
    /\ \E v \in Lengthscales :
          /\ v # lengthscale
          /\ lengthscale' = v
    /\ UNCHANGED <<net, built, evaluation>>
    /\ UNCHANGED <<trainVars, modelVars, mapVars, gradVars>>

\* what one call of unnormalized_log_prob at the lengthscale argument
\* l_arg works with, q[d] being w^T A_d w
EvaluationOf(closure, ls, l_arg, q) ==
    <<[l_arg |-> l_arg,
       h |-> EvalLengthscale(closure[1].infer_hyper, l_arg, closure[1].h),
       Ax_d |-> EvalLengthscale(closure[1].infer_hyper, l_arg,
                                closure[1].Ax_d),
       lengthscale |-> IF closure[1].infer_hyper THEN l_arg ELSE ls,
       terms |-> DimTerms(q) \o GroupTerms(q)]>>

\* an evaluation of the closure built last, self.lengthscale being as it is
Evaluation(l_arg, q) == EvaluationOf(built, lengthscale, l_arg, q)

\* one call of unnormalized_log_prob; RffGradPen takes w alone
Evaluate ==
    /\ built # <<>>
    /\ \E l_arg \in {0} \cup Lengthscales :
       \E q \in [1..net.dim_in -> Quads] :
          /\ (l_arg = 0) <=> (net.class = "RffGradPen")
          /\ \A k \in 1..Len(net.groups) : IsSquare(SumOver(q, net.groups[k]))
          /\ evaluation' = Evaluation(l_arg, q)
    /\ UNCHANGED <<net, lengthscale, built>>
    /\ UNCHANGED <<trainVars, modelVars, mapVars, gradVars>>

InitLogProb ==
    /\ GradInit
    /\ PenInit(Classes, PenaltyTypes, 1..MaxDim, ScaleLists, GroupLists,
               Lengthscales)
    /\ TrainInit("any", {1}, {1}, {<<1, 1>>}, {<<1, 2>>}, {0})
    /\ ModelInit({"RffHs"}, {FALSE})
    /\ MapInit({"train_map"}, {0})

NextLogProb == MakeLogProb \/ SetLengthscale \/ Evaluate

SpecLogProb == InitLogProb /\ [][NextLogProb]_vars

\* ------------------------------------------- RffGradPenHyper_v2: MAP runs
\* tf.math.softplus on the grid of the table
Softplus(x) == SoftplusTable[x \div RawStep + 1]

\* what make_unnormalized_log_prob(x, y, infer_hyper) of RffGradPenHyper_v2
\* caches when self.lengthscale is `ls`
Closure(infer_hyper, ls) ==
    <<[infer_hyper |-> infer_hyper, h |-> ls, Ax_d |-> ls]>>

\* the call enters the optimisation: it builds the log-posterior with
\* infer_hyper=True and prints the starting values; train(optimize_hyper=True)
\* and train_map run SGD on raw variables, train_map_old runs BFGS; train
\* is called with infer_hyper or without
MapCall ==
    /\ map_pc = "call"
    /\ \E ih \in BOOLEAN :
          /\ entry # "train" => ~ih
          /\ train_infer_hyper' = ih
    /\ map_pc' = IF entry = "train_map_old" THEN "bfgs" ELSE "sgd"
    /\ built' = Closure(TRUE, lengthscale)
    /\ evaluation' = <<>>
    /\ lengthscale_map' = IF entry = "train_map_old" THEN <<>>
                          ELSE <<lengthscale>>
    /\ printed' = IF entry = "train_map_old"
                  THEN {"lengthscale_init", "prior_w2_sig2_init"}
                  ELSE {"lengthscale init", "prior_w2_sig2 init"}
    /\ UNCHANGED <<entry, map_iter, map_grad, optim_results, map_ret>>
    /\ UNCHANGED <<net, lengthscale>>
    /\ UNCHANGED <<trainVars, modelVars, gradVars>>

\* values of w2^T A_d w2 along a MAP run
MapQuads == {1, 4}

\* one pass of `for epoch in range(500): opt.minimize(...)`: the
\* log-posterior is evaluated at softplus(lengthscale_map), then the step
\* may bring the iterate closer to a stationary point, leave it or move it
\* away, and moves lengthscale_map by RawStep at most
MapSgdStep ==
    /\ map_pc = "sgd"
    /\ map_iter < MapIters
    /\ map_iter' = map_iter + 1
    /\ \E q \in [1..net.dim_in -> MapQuads] :
          evaluation' = Evaluation(Softplus(lengthscale_map[1]), q)
    /\ \E g \in 0..MaxGrad :
          /\ g - map_grad \in {-1, 0, 1}
          /\ map_grad' = g
    /\ \E d \in {-RawStep, 0, RawStep} :
          /\ Abs(lengthscale_map[1] + d - lengthscale) <= MaxDrift * RawStep
          /\ lengthscale_map' = <<lengthscale_map[1] + d>>
    /\ UNCHANGED <<entry, map_pc, optim_results, train_infer_hyper, printed,
                   map_ret>>
    /\ UNCHANGED <<net, lengthscale, built>>
    /\ UNCHANGED <<trainVars, modelVars, gradVars>>

\* hmc_tf(unnormalized_log_prob, init_values, ...): the log-posterior is
\* evaluated at the initial values and along the chain; the lengthscale is
\* part of the chain under infer_hyper and self.lengthscale otherwise
HmcLengthscales(ih, ls) == IF ih THEN {ls} \cup Lengthscales ELSE {ls}

\* train_map assigns self.lengthscale = softplus(lengthscale_map), prints
\* and returns w2; train goes on to build the log-posterior again with its
\* own infer_hyper, runs HMC on it and returns (samples, accept)
MapSgdReturn ==
    /\ map_pc = "sgd"
    /\ map_iter >= MapIters
    /\ lengthscale' = Softplus(lengthscale_map[1])
    /\ IF entry = "train"
       THEN /\ built' = Closure(train_infer_hyper, lengthscale')
            /\ \E q \in [1..net.dim_in -> MapQuads],
                  l_arg \in HmcLengthscales(train_infer_hyper, lengthscale') :
                  evaluation' = EvaluationOf(built', lengthscale', l_arg, q)
       ELSE UNCHANGED <<built, evaluation>>
    /\ printed' = printed \cup {"lengthscale final", "prior_w2_sig2 final"}
    /\ map_ret' = IF entry = "train_map"
                  THEN <<[w2 |-> "w2_map"]>>
                  ELSE <<[samples |-> "hmc", accept |-> "hmc"]>>
    /\ map_pc' = "returned"
    /\ UNCHANGED <<entry, map_iter, map_grad, optim_results, lengthscale_map,
                   train_infer_hyper>>
    /\ UNCHANGED net
    /\ UNCHANGED <<trainVars, modelVars, gradVars>>

\* train_map_old: tfp.optimizer.bfgs_minimize evaluates the log-posterior
\* at the raw positions it visits, the one it returns among them; its
\* result carries the flags converged and failed; the flags are printed,
\* self.lengthscale is taken from the position, and the call stops at
\* breakpoint()
MapBfgs ==
    /\ map_pc = "bfgs"
    /\ \E c, f \in BOOLEAN, p \in Lengthscales :
          /\ ~(c /\ f)
          /\ optim_results' = <<[converged |-> c, failed |-> f,
                                 position |-> p]>>
          /\ map_grad' = IF c THEN 0 ELSE map_grad
          /\ lengthscale' = p
          /\ \E q \in [1..net.dim_in -> MapQuads] :
                evaluation' = Evaluation(p, q)
    /\ printed' = printed \cup {"Failed", "Converged", "lengthscale final",
                                 "prior_w2_sig2 final", "Completed"}
    /\ map_pc' = "breakpoint"
    /\ UNCHANGED <<entry, map_iter, lengthscale_map, train_infer_hyper,
                   map_ret>>
    /\ UNCHANGED <<net, built>>
    /\ UNCHANGED <<trainVars, modelVars, gradVars>>

\* train_map_old: past breakpoint(), return w2
MapOldReturn ==
    /\ map_pc = "breakpoint"
    /\ map_ret' = <<[w2 |-> "position"]>>
    /\ map_pc' = "returned"
    /\ UNCHANGED <<entry, map_iter, map_grad, optim_results, lengthscale_map,
                   train_infer_hyper, printed>>
    /\ UNCHANGED <<trainVars, modelVars, gradVars, penVars>>

InitMap ==
    /\ GradInit
    /\ PenInit({"RffGradPenHyper_v2"}, {"l1"}, {1}, {<<1>>}, {NoGroups},
               Lengthscales)
    /\ TrainInit("any", {1}, {1}, {<<1, 1>>}, {<<1, 2>>}, {0})
    /\ ModelInit({"RffHs"}, {FALSE})
    /\ MapInit({"train_map", "train", "train_map_old"}, 0..MaxGrad)

NextMap == MapCall \/ MapSgdStep \/ MapSgdReturn \/ MapBfgs \/ MapOldReturn

SpecMap == InitMap /\ [][NextMap]_vars

\* ======================================================== properties: train
\* epochs whose loss has been recorded
Recorded == IF pc = "opt" THEN 0..(epoch - 1) ELSE 0..epoch

\* epoch e lies past the save-start fraction
PastSave(e) == e * frac_start_save[2] > frac_start_save[1] * n_epochs

\* epoch e runs at temperature 1.0
FullTemp(e) == 10 * e >= n_epochs

\* least recorded loss over the epochs E, +infinity over no epoch
BestOf(E) ==
    IF E = {} THEN Inf
    ELSE CHOOSE v \in {loss[e + 1] : e \in E} :
             \A w \in {loss[e + 1] : e \in E} : v <= w

SavedEpochs == {saves[k] : k \in 1..Len(saves)}

\* the recorded loss is constant at its best value from epoch PlateauStart on
IsPlateau ==
    \A e \in PlateauStart..epoch : loss[e + 1] = BestOf(0..epoch)

\* C1 (as claimed): with n_epochs = 100, frac_start_save = 0.5 and a loss
\* that stays at its best value from epoch 50 on, train ends without having
\* executed all 100 epochs.
C1_PlateauHaltsEarly ==
    (pc = "done" /\ IsPlateau) => epoch + 1 < n_epochs

\* C2 (as claimed): after train with a saved checkpoint, the model is the
\* snapshot of an executed epoch whose recorded loss is the minimum over all
\* executed epochs.
C2_RestoredIsBestOfAllEpochs ==
    (pc = "done" /\ saved_model) =>
        /\ model_state.epoch \in 0..epoch
        /\ model_state.fp
        /\ loss[model_state.epoch + 1] = BestOf(0..epoch)

\* C2 (amended): after train with a saved checkpoint, the model is the
\* snapshot taken at the end of the earliest executed epoch past the
\* save-start fraction whose recorded loss is the minimum over the executed
\* epochs past the save-start fraction.
C2_RestoredIsBestPastStartSave ==
    (pc = "done" /\ saved_model) =>
        LET e == model_state.epoch
            P == {k \in 0..epoch : PastSave(k)}
        IN  /\ e \in P
            /\ loss[e + 1] = BestOf(P)
            /\ \A k \in P : k < e => loss[k + 1] > loss[e + 1]
            /\ model_state.step = n_rep_opt
            /\ model_state.fp

\* C2 witness: a finished run whose restored snapshot is older than the last
\* epoch and whose least loss was recorded before the save-start fraction
C2_Witness ==
    /\ pc = "done" /\ saved_model
    /\ model_state.epoch < epoch
    /\ \E k \in 0..epoch : ~PastSave(k) /\ loss[k + 1] < loss_best_saved

\* C3 (as claimed): the reload at loop exit restores both the model
\* parameters and the optimizer state stored in the checkpoint.
C3_ReloadRestoresModelAndOptimizer ==
    (pc = "done" /\ reloaded) =>
        /\ model_state = checkpoint[1].model_state_dict
        /\ optimizer_state = checkpoint[1].optimizer_state_dict

\* C4: a checkpoint is written at an epoch iff the epoch is past the
\* save-start fraction and its loss is strictly below every loss saved
\* before; the saved losses strictly decrease and loss_best_saved is the
\* least recorded loss over the executed epochs past the save-start fraction.
C4_CheckpointIffImprovementPastStart ==
    /\ \A e \in Recorded :
          (e \in SavedEpochs) <=>
              (PastSave(e) /\ loss[e + 1] < BestOf({k \in 0..(e - 1) : PastSave(k)}))
    /\ \A j, k \in 1..Len(saves) :
          j < k => (saves[j] < saves[k] /\ loss[saves[k] + 1] < loss[saves[j] + 1])
    /\ loss_best_saved = BestOf({e \in Recorded : PastSave(e)})
    /\ (checkpoint # <<>>) <=> (saves # <<>>)
    /\ checkpoint # <<>> =>
          /\ checkpoint[1].epoch = saves[Len(saves)]
          /\ checkpoint[1].loss = loss_best_saved

\* C4 witness: two checkpoints were written and an epoch past the save-start
\* fraction was passed over
C4_Witness ==
    /\ Len(saves) >= 2
    /\ \E e \in Recorded : PastSave(e) /\ e \notin SavedEpochs

\* C5: the checkpoint is read back at loop exit iff this run wrote one;
\* saved_model is true exactly when a save happened.
C5_ReloadIffSaved ==
    /\ saved_model <=> (saves # <<>>)
    /\ reloaded => pc = "done"
    /\ pc = "done" => (reloaded <=> (saves # <<>>))

\* C5 witness: a run that saved, ran to its last epoch and reloaded
C5_Witness ==
    pc = "done" /\ reloaded /\ ~stopped_early /\ epoch + 1 = n_epochs

\* C6: the temperature passed to model.loss at epoch e is e/(n_epochs/10)
\* when e < n_epochs/10 and 1.0 otherwise (e/10 below epoch 10 for
\* n_epochs = 100); it starts at 0, never decreases, never exceeds 1.
C6_TemperatureRamp ==
    /\ \A k \in 1..Len(temps) :
          LET e == k - 1
              t == temps[k]
          IN  /\ 10 * e < n_epochs => t[1] * n_epochs = 10 * e * t[2]
              /\ 10 * e >= n_epochs => t[1] = t[2]
              /\ n_epochs = 100 =>
                     IF e < 10 THEN 10 * t[1] = e * t[2] ELSE t[1] = t[2]
              /\ t[2] > 0 /\ 0 <= t[1] /\ t[1] <= t[2]
              /\ k > 1 => temps[k - 1][1] * t[2] <= t[1] * temps[k - 1][2]
    /\ temps # <<>> => temps[1][1] = 0
    /\ (pc = "opt" /\ i > 0) => temps[epoch + 1] = temperature_kl

\* C6 witness: a run of at least 100 epochs that has used a temperature
\* strictly between 0 and 1 and has reached 1
C6_Witness ==
    /\ n_epochs >= 100
    /\ \E k \in 1..Len(temps) : 0 < temps[k][1] /\ temps[k][1] < temps[k][2]
    /\ \E k \in 1..Len(temps) : temps[k][1] = temps[k][2]

\* C7: loss_best is +infinity until an epoch has run at temperature 1.0 and
\* is otherwise the least recorded loss over the executed epochs that ran at
\* temperature 1.0; a loss recorded during the ramp is never the best loss.
C7_BestLossOnlyAtFullTemperature ==
    /\ loss_best = BestOf({e \in Recorded : FullTemp(e)})
    /\ (\A e \in Recorded : ~FullTemp(e)) => loss_best = Inf

\* C7 witness: a ramp epoch with temperature in (0, 1) recorded a loss
\* strictly below the best loss
C7_Witness ==
    /\ loss_best < Inf
    /\ \E e \in Recorded : e >= 1 /\ ~FullTemp(e) /\ loss[e + 1] < loss_best

\* C9 (as claimed): with frac_lookback >= 1 - frac_start_save the loop
\* never stops early.
C9_NoEarlyStopWhenLookbackTooLong ==
    ((frac_start_save[2] - frac_start_save[1]) * frac_lookback[2]
         <= frac_lookback[1] * frac_start_save[2])
        => ~(stopped_early /\ epoch + 1 < n_epochs)

\* first epoch of the trailing window at the current epoch:
\* max(1, int(epoch - n_epochs/4))
WindowStart ==
    LET d == 4 * epoch - n_epochs
        k == IF d >= 0 THEN d \div 4 ELSE -((-d) \div 4)
    IN  IF k > 1 THEN k ELSE 1

\* the least loss recorded in the trailing window is worse than the best
\* loss: (loss_best - minimum)/|loss_best| < 0
WindowWorse == loss_best # Inf /\ BestOf(WindowStart..epoch) > loss_best

\* C12 (as claimed): at every epoch past the save-start fraction whose
\* trailing-window minimum is worse than the best loss, train stops at that
\* epoch and runs no later one.
C12_StopTestAtEveryEpochPastStartSave ==
    (pc \in {"loop", "exit"} /\ epoch >= 0 /\ epoch + 1 < n_epochs
        /\ PastSave(epoch) /\ WindowWorse)
        => (pc = "exit" /\ stopped_early)

\* C12 (amended): train stops at an epoch exactly when the window start
\* max(1, int(epoch - n_epochs/4)) exceeds frac_start_save*n_epochs + 1 and
\* the least loss recorded from the window start to the epoch is worse than
\* the best loss; once stopped, no later epoch runs.
C12_StopIffWindowPastStartSaveAndWorse ==
    (pc \in {"loop", "exit", "done"} /\ epoch >= 0) =>
        /\ stopped_early <=>
              /\ WindowStart * frac_start_save[2]
                     > frac_start_save[1] * n_epochs + frac_start_save[2]
              /\ WindowWorse
        /\ stopped_early => (pc # "loop" /\ Len(temps) = epoch + 1)

C12_Witness ==
    /\ pc = "exit" /\ stopped_early
    /\ epoch + 1 < n_epochs
    /\ frac_start_save[1] > 0

\* C19: train returns loss[:epoch], epoch being the index of the last epoch
\* that ran: the recorded losses of all epochs that ran but the last, one
\* entry fewer than the number of epochs that ran, after a complete run and
\* after an early stop alike.
C19_ReturnOmitsLastEpoch ==
    pc = "done" =>
        /\ Len(ret) = epoch
        /\ Len(ret) = Len(temps) - 1
        /\ \A k \in 1..Len(ret) : ret[k] = loss[k]
        /\ ~stopped_early => Len(ret) = n_epochs - 1

C19_Witness ==
    /\ pc = "done" /\ ~stopped_early
    /\ n_epochs >= 3
    /\ Len(ret) = n_epochs - 1
    /\ loss[n_epochs] # 0
    /\ \E k \in 1..Len(ret) : ret[k] # 0

\* C21: when train stops early (all recorded losses being finite), a
\* checkpoint has been written before: the first epoch past the save-start
\* fraction ran and saved; the run then ends by reloading a checkpoint: the
\* parameters of the model are those of the last checkpoint written.
C21_EarlyStopHasCheckpoint ==
    stopped_early =>
        /\ saved_model /\ checkpoint # <<>> /\ saves # <<>>
        /\ epoch * frac_start_save[2] > frac_start_save[1] * n_epochs
        /\ saves[1] * frac_start_save[2] > frac_start_save[1] * n_epochs
        /\ (saves[1] - 1) * frac_start_save[2]
               <= frac_start_save[1] * n_epochs
        /\ saves[1] <= epoch
        /\ pc = "done" =>
              /\ reloaded
              /\ model_state.epoch = checkpoint[1].model_state_dict.epoch
              /\ model_state.step = checkpoint[1].model_state_dict.step
              /\ model_state.fp = checkpoint[1].model_state_dict.fp
              /\ model_state.epoch = saves[Len(saves)]

C21_Witness ==
    /\ pc = "done" /\ stopped_early /\ reloaded
    /\ epoch + 1 < n_epochs
    /\ Len(saves) >= 2
    /\ model_state.epoch < epoch

\* ============================================== properties: RffHs / RffBeta
\* C8 (as claimed): whenever a forward pass uses stored output weights, the
\* conjugate state they were drawn from was derived from the input-layer
\* sample behind the hidden features of that pass.  (Weights left by
\* init_parameters, which rest on no sample, are not held against the claim.)
C8_StoredWeightsMatchHiddenSample ==
    \A k \in 1..Len(fwd) :
        (fwd[k].stored_w /\ fwd[k].w # 0) => fwd[k].w = fwd[k].in

\* ==================================================== properties: MAP runs
\* C10 (as claimed): after train_map, called directly or through
\* train(optimize_hyper=True), the caller holds a status flag telling whether
\* the optimisation converged.
C10_MapStatusSurfaced ==
    (map_pc = "returned" /\ entry \in {"train_map", "train"}) =>
        /\ "converged" \in DOMAIN map_ret[1]
        /\ map_ret[1].converged = (map_grad = 0)

\* ===================================== properties: the calls on the model
\* occurrences of `op` in the sequence `s`
Count(s, op) == Cardinality({k \in 1..Len(s) : s[k] = op})

\* C11 (as claimed): with infer_noise set, the epoch's call of
\* model.fixed_point_updates (temperature 1) returns without an exception
\* and has assigned the noise shape and rate exactly once.
C11_NoiseUpdatedByFixedPointCall ==
    (infer_noise /\ last_call = "fixed_point_updates"
        /\ last_temperature[1] > 0)
        => (error = "" /\ Count(ops, "noise_update") = 1)

\* the steps of the draw-then-update protocol, in order
ProtocolSteps == <<"sample_variational", "layer_in",
                   "layer_out.fixed_point_updates", "sample_weights",
                   "forward">>

\* C15: RffHs.loss and RffHs.sample_posterior_predictive run, in this order,
\* a draw that is stored, a forward pass of the input layer on the stored
\* draw, the conjugate update on its hidden features, a draw of the output
\* weights that is stored, and a forward pass on the stored draw and the
\* stored weights; nothing is drawn again in between.
C15_DrawUpdateSamplePredictOrder ==
    (variant = "RffHs"
        /\ last_call \in {"loss", "sample_posterior_predictive"}) =>
        /\ SelectSeq(ops, LAMBDA o : o \notin {"kl_divergence", "log_prob"})
               = ProtocolSteps
        /\ Len(fwd) = 2
        /\ fwd[1].net = "layer_in" /\ fwd[2].net = "model"
        /\ fwd[1].in = in_stored /\ fwd[2].in = in_stored
        /\ out_conj = fwd[1].in
        /\ fwd[2].stored_w /\ fwd[2].w = out_w /\ out_w = out_conj
        /\ n_draws = in_stored

C15_Witness ==
    /\ variant = "RffHs"
    /\ last_call = "sample_posterior_predictive"
    /\ n_draws >= 3
    /\ in_aux >= 1
    /\ fwd[2].w = n_draws

\* ================================ properties: the epoch, statement by statement
\* an epoch has run to its end (no exception ended train inside it)
EpochComplete == pc \in {"loop", "exit", "done"} /\ epoch >= 0

\* positions of the events `op` in the log of the epoch
At(op) == {k \in 1..Len(ev) : ev[k].op = op}

\* closed-form updates `u` inside event k
Inside(k, u) == Count(ev[k].ops, u)

RECURSIVE SumInside(_, _)
\* closed-form updates `u` inside the events at positions K
SumInside(K, u) ==
    IF K = {} THEN 0
    ELSE LET k == CHOOSE x \in K : TRUE
         IN  Inside(k, u) + SumInside(K \ {k}, u)

Aux == "layer_in.fixed_point_updates"
Conj == "layer_out.fixed_point_updates"

\* C13 (as claimed): in every epoch each auxiliary-variable update and each
\* conjugate output-layer update runs with gradient tracking disabled, and
\* the conjugate update runs exactly once, whatever the network.
C13_ClosedFormUpdatesOnceWithoutGrad ==
    EpochComplete =>
        /\ \A k \in 1..Len(ev) :
              (Inside(k, Aux) + Inside(k, Conj) > 0) => ~ev[k].grad
        /\ SumInside(1..Len(ev), Conj) = 1

\* C13 (amended): in every epoch model.fixed_point_updates runs exactly once,
\* with gradient tracking disabled; for an RffHs it is the auxiliary-variable
\* update alone, for an RffBeta the conjugate output-layer update alone, once.
\* The conjugate update of an RffHs is part of loss: it runs once in each of
\* the n_rep_opt loss evaluations of the epoch and in both loss evaluations
\* of print_state, with gradient tracking enabled.
C13_FixedPointCallOnceWithoutGrad ==
    EpochComplete =>
        /\ Cardinality(At("model.fixed_point_updates")) = 1
        /\ \A k \in At("model.fixed_point_updates") :
              /\ ~ev[k].grad
              /\ Inside(k, Aux) = (IF variant = "RffHs" THEN 1 ELSE 0)
              /\ Inside(k, Conj) = (IF variant = "RffHs" THEN 0 ELSE 1)
        /\ \A k \in 1..Len(ev) :
              Inside(k, Aux) > 0 => ev[k].op = "model.fixed_point_updates"
        /\ \A k \in At("model.loss") :
              /\ ev[k].grad
              /\ Inside(k, Conj) = (IF variant = "RffHs" THEN 1 ELSE 0)
        /\ \A k \in At("model.print_state") :
              /\ ev[k].grad
              /\ Inside(k, Conj) = (IF variant = "RffHs" THEN 2 ELSE 0)
        /\ SumInside(1..Len(ev), Conj) =
              IF variant = "RffBeta" THEN 1
              ELSE n_rep_opt + 2 * Cardinality(At("model.print_state"))

C13_Witness ==
    /\ pc = "loop" /\ epoch >= 1
    /\ variant = "RffHs"
    /\ n_rep_opt = 2
    /\ At("model.print_state") # {}
    /\ SumInside(1..Len(ev), Conj) = 4

\* C14: a completed epoch is n_rep_opt times loss, zero_grad, backward, step,
\* each loss at the temperature of the epoch, then the recording of the last
\* loss evaluated, then one call of model.fixed_point_updates, and only then
\* the best-loss update, the checkpoint and the early-stop test.
C14_EpochIsStepsThenOneFixedPointCall ==
    EpochComplete =>
        /\ Len(ev) >= 4 * n_rep_opt + 2
        /\ \A j \in 0..(n_rep_opt - 1) :
              /\ ev[4 * j + 1].op = "model.loss"
              /\ ev[4 * j + 1].temp = temps[epoch + 1]
              /\ ev[4 * j + 2].op = "zero_grad"
              /\ ev[4 * j + 3].op = "backward"
              /\ ev[4 * j + 3].temp = temps[epoch + 1]
              /\ ev[4 * j + 4].op = "step"
        /\ temps[epoch + 1] = (IF 10 * epoch < n_epochs
                               THEN <<10 * epoch, n_epochs>> ELSE <<1, 1>>)
        /\ Cardinality(At("model.loss")) = n_rep_opt
        /\ Cardinality(At("step")) = n_rep_opt
        /\ ev[4 * n_rep_opt + 1].op = "record"
        /\ loss[epoch + 1] = l
        /\ At("model.fixed_point_updates") = {4 * n_rep_opt + 2}
        /\ \A k \in At("best") \cup At("save") \cup At("stop_test") :
              k > 4 * n_rep_opt + 2
        /\ Cardinality(At("best")) = 1 /\ Cardinality(At("stop_test")) = 1

C14_Witness ==
    /\ pc = "loop" /\ epoch >= 1
    /\ variant = "RffBeta"
    /\ n_rep_opt = 2
    /\ At("save") # {}
    /\ loss[epoch + 1] # loss[epoch]

\* C20: the model state in a checkpoint is the state after the last optimizer
\* step and after the fixed-point update of the epoch that wrote it; the loss
\* stored with it is the last loss evaluated in that epoch, on the state
\* before that step, hence on other parameters than the saved ones.
C20_CheckpointLossPredatesSavedState ==
    (EpochComplete /\ pc # "done" /\ checkpoint # <<>>
        /\ checkpoint[1].epoch = epoch) =>
        LET ck == checkpoint[1]
        IN  /\ ck.model_state_dict.epoch = epoch
            /\ ck.model_state_dict.step = n_rep_opt
            /\ ck.model_state_dict.fp
            /\ ck.optimizer_state_dict = [epoch |-> epoch, step |-> n_rep_opt]
            /\ ck.loss = l /\ ck.loss = loss[epoch + 1]
            /\ l_state # ck.model_state_dict
            /\ \/ l_state.epoch = epoch /\ l_state.step = n_rep_opt - 1
                     /\ ~l_state.fp
               \/ l_state.epoch = epoch - 1 /\ n_rep_opt = 1

C20_Witness ==
    /\ pc = "loop" /\ epoch >= 2
    /\ checkpoint # <<>>
    /\ checkpoint[1].epoch = epoch
    /\ n_rep_opt = 2
    /\ l_state.step = 1

\* ================================= properties: RffBeta.compute_loss_gradients
\* C16: after compute_loss_gradients each of s_a_trans and s_b_trans carries
\* -log_lik * d(log q) + temperature * d(KL); the captured d(log q) and d(KL)
\* are those of their own backward pass alone, whatever the buffers held
\* before the call; log_lik was evaluated on the sample the call drew and
\* stored first.
C16_ScoreGradientFromTwoCleanPasses ==
    (last_call = "compute_loss_gradients" /\ error = "") =>
        /\ \A p \in Params :
              /\ grad_q[p] = <<score[1].dq[p]>>
              /\ grad_kl[p] = <<score[1].dkl[p]>>
              /\ grad[p] = <<-score[1].log_lik * score[1].dq[p]
                             + score[1].temperature * score[1].dkl[p]>>
        /\ ops = <<"sample_variational", "forward", "neg_log_prob",
                   "log_prob_variational", "kl_divergence">>
        /\ Len(fwd) = 1
        /\ fwd[1].in = score[1].drawn
        /\ in_stored = score[1].drawn /\ n_draws = score[1].drawn

\* a second call, on buffers that a previous call left non-zero
C16_Witness ==
    /\ last_call = "compute_loss_gradients"
    /\ n_draws >= 3
    /\ score[1].temperature = 1
    /\ \E p \in Params : score[1].dq[p] = 1 /\ score[1].dkl[p] = 1
    /\ \E p \in Params : grad[p] = <<3>>

\* ================================== properties: the RffGradPen log-posteriors
\* C17: with a free lengthscale (RffGradPenHyper; RffGradPenHyper_v2 built
\* with infer_hyper=True) an evaluation takes its hidden features and its
\* penalty matrices from its own lengthscale argument; built with
\* infer_hyper=False it takes both from what was cached at build time.
C17_FeaturesFollowLengthscaleArgument ==
    (evaluation # <<>> /\ net.class # "RffGradPen") =>
        LET e == evaluation[1]
            free == net.class = "RffGradPenHyper" \/ built[1].infer_hyper
        IN  /\ free => (e.h = e.l_arg /\ e.Ax_d = e.l_arg)
            /\ ~free => (e.h = built[1].h /\ e.Ax_d = built[1].Ax_d)

\* an evaluation at a lengthscale other than the one cached at build time
C17_Witness ==
    /\ evaluation # <<>>
    /\ net.class = "RffGradPenHyper_v2"
    /\ built[1].infer_hyper
    /\ evaluation[1].l_arg # built[1].h
    /\ evaluation[1].h = evaluation[1].l_arg

\* C18 (as claimed): in the RffGradPen log-posterior every penalty term, of
\* an input dimension or of a group, is scale * (w^T A w) under
\* penalty_type 'l2' and scale * sqrt(w^T A w) under 'l1'.
C18_EveryTermFollowsPenaltyType ==
    (evaluation # <<>> /\ net.class = "RffGradPen") =>
        \A k \in 1..Len(evaluation[1].terms) :
            LET t == evaluation[1].terms[k]
            IN  /\ net.penalty_type = "l2" => t.value = t.scale * t.q
                /\ net.penalty_type = "l1" =>
                      t.value * t.value = t.scale * t.scale * t.q

\* ================================================= properties: train_score
\* C22 (as claimed): train_score leaves its loss array at zero, writes at
\* most one checkpoint and that at the first epoch past the save-start
\* fraction, never stops early, never reloads, runs every epoch (none is cut
\* short by an exception) at temperature 0 and returns n_epochs zeros.
C22_ScoreRunsAllEpochsWithZeroLoss ==
    pc \in {"score_loop", "score_opt", "score_done", "raised"} =>
        /\ pc # "raised"
        /\ \A k \in 1..n_epochs : loss[k] = 0
        /\ Len(saves) <= 1
        /\ saves # <<>> =>
              /\ saves[1] * frac_start_save[2] > frac_start_save[1] * n_epochs
              /\ (saves[1] - 1) * frac_start_save[2]
                     <= frac_start_save[1] * n_epochs
        /\ ~stopped_early /\ ~reloaded
        /\ \A k \in 1..Len(temps) : temps[k][1] = 0
        /\ pc = "score_done" =>
              /\ epoch + 1 = n_epochs
              /\ Len(temps) = n_epochs
              /\ ret = [k \in 1..n_epochs |-> 0]

\* ================================================ properties: print_state
\* C23: print_state of an RffHs evaluates loss twice, with gradient
\* tracking enabled; each evaluation draws and stores a sample of the input
\* layer, recomputes the conjugate state and draws and stores the output
\* weights.  An epoch of train that prints leaves, and checkpoints, layers
\* that rest on the second of these draws; an epoch that does not print
\* leaves, and checkpoints, layers that rest on the draw of its last
\* gradient step.
C23_PrintStateRedrawsAndChangesCheckpoint ==
    (EpochComplete /\ pc # "done" /\ variant = "RffHs") =>
        /\ \A k \in At("model.print_state") :
              /\ ev[k].grad
              /\ k > 4 * n_rep_opt + 2
              /\ Count(ev[k].ops, "log_prob") = 2
              /\ Count(ev[k].ops, "sample_variational") = 2
              /\ Count(ev[k].ops, "layer_out.fixed_point_updates") = 2
              /\ Count(ev[k].ops, "sample_weights") = 2
        /\ model_state.printed <=> (At("model.print_state") # {})
        /\ in_stored = n_draws /\ out_conj = n_draws /\ out_w = n_draws
        /\ SumInside(1..(4 * n_rep_opt), "sample_variational") = n_rep_opt
        /\ SumInside(1..Len(ev), "sample_variational") =
              n_rep_opt + (IF model_state.printed THEN 2 ELSE 0)
        /\ (checkpoint # <<>> /\ checkpoint[1].epoch = epoch) =>
              checkpoint[1].model_state_dict = model_state

\* a checkpoint written at an epoch that printed
C23_Witness ==
    /\ pc = "loop" /\ variant = "RffHs"
    /\ At("model.print_state") # {}
    /\ checkpoint # <<>>
    /\ checkpoint[1].epoch = epoch
    /\ checkpoint[1].model_state_dict.printed
    /\ n_rep_opt = 1


\* ============================== properties: the per-dimension penalty loop
\* C24: in the three log-posteriors an evaluation adds one per-dimension
\* penalty term for each input dimension that has an entry in scale_global,
\* in order, when penalty_type is 'l1' or 'l2', and none under any other
\* penalty_type; dimensions without an entry, and entries without a
\* dimension, add nothing, and the evaluation returns.
C24_DimTermsCountIsMinOrZero ==
    evaluation # <<>> =>
        LET dims == SelectSeq(evaluation[1].terms,
                              LAMBDA t : t.kind = "dim")
            len == Len(net.scale_global)
            n == IF net.penalty_type \in {"l1", "l2"}
                 THEN (IF len < net.dim_in THEN len ELSE net.dim_in)
                 ELSE 0
        IN  /\ Len(dims) = n
            /\ \A k \in 1..Len(dims) :
                  /\ dims[k].index = k
                  /\ k <= len /\ k <= net.dim_in
                  /\ dims[k].scale = net.scale_global[k]

\* an evaluation of a network with fewer scales than input dimensions
C24_Witness ==
    /\ evaluation # <<>>
    /\ net.class = "RffGradPenHyper_v2"
    /\ net.penalty_type = "l1"
    /\ Len(net.scale_global) < net.dim_in
    /\ Len(SelectSeq(evaluation[1].terms, LAMBDA t : t.kind = "dim")) =
           Len(net.scale_global)

====
